---- MODULE Spec2Model ----
(***************************************************************************)
(* A model of the cocoa backend: src/server.py (signup, login, the bearer  *)
(* token guard, the menu and order handlers over the document store) and   *)
(* src/routes/payments.py (the Razorpay order creation and the callback    *)
(* signature check).                                                       *)
(*                                                                         *)
(* Every request is a task on the event loop.  A task runs without         *)
(* interruption from one await of a store call to the next, so one step of *)
(* the model is one store call together with the code that follows it up   *)
(* to the next store call (or the response).  The code that precedes a     *)
(* handler's first store call touches no shared state and is part of that  *)
(* first step.  So is get_current_user's find_one on db.users: it reads    *)
(* one user document by id, and no handler updates or deletes a user       *)
(* document, so the read returns the same at any later moment.  A handler  *)
(* with a single store call is therefore one step, and only signup,        *)
(* update_menu_item and update_order_status are suspended between steps.   *)
(*                                                                         *)
(* Fields of the documents that no handler branches on (name, description, *)
(* price, image_url, ingredients, calories, items, total_amount, user_name,*)
(* user_email, the timestamps of items and orders) are left out of the     *)
(* records.  uuid4 identifiers are fresh numbers.  GET /menu/categories    *)
(* and GET /testimonials only read and are left out.                       *)
(***************************************************************************)
EXTENDS Integers, Sequences, FiniteSets, TLC

VARIABLES
    users,          \* db.users, in insertion order
    menu_items,     \* db.menu_items, in insertion order
    orders,         \* db.orders, in insertion order
    itemsCreated,   \* how many menu item ids have been drawn so far
    now,            \* the wall clock, in hours
    task,           \* per request slot: where its handler is suspended, and its locals
    env,            \* os.environ["RAZORPAY_KEY_SECRET"], fixed at process start
    gateway_calls,  \* the client.order.create calls made so far
    last            \* the last response sent, with the request it answers

vars == <<users, menu_items, orders, itemsCreated, now, task, env, gateway_calls, last>>

(***************************************************************************)
(* Bounds of the model.                                                    *)
(***************************************************************************)
MaxSignups == 2
MaxItems == 1
MaxOrders == 1
MaxTicks == 1
MaxGatewayCalls == 2

(***************************************************************************)
(* Responses.  HTTPException(status_code, detail) and a returned body both *)
(* end the request; `last` keeps the response beside the request.          *)
(***************************************************************************)
NoBody == [kind |-> "none"]

\* `caller` is the authenticated identity the handler ran for, when it has one.
RespAs(op, caller, rq, st, detail, body) ==
    [op |-> op, caller |-> caller, req |-> rq, status |-> st, detail |-> detail,
     body |-> body]

Resp(op, rq, st, detail, body) == RespAs(op, <<>>, rq, st, detail, body)

NoResp == Resp("none", [none |-> TRUE], 0, "", NoBody)

(***************************************************************************)
(* src/routes/payments.py                                                  *)
(***************************************************************************)
\* An environment variable is absent (<<>>) or holds a string (<<s>>).
Unset == <<>>

Secrets == {Unset, <<"">>, <<"k1">>}

\* `not secret`: None and the empty string are both falsy.
SecretMissing_NoneOnly(secret) == secret = Unset

SecretMissing(secret) == secret = Unset \/ secret[1] = ""

\* hmac.new(key, msg, sha256).hexdigest(), as an injective function of
\* (key, msg): keys hold no ":" character.
HmacSha256Hex(key, msg) == "hmac:" \o key \o ":" \o msg

SignedMessage(order_id, payment_id) == order_id \o "|" \o payment_id

\* Amounts are in thousandths of a rupee, so that fractions of a paisa exist.
Amounts == {-5000, -1, 0, 4, 20, 1000}

AmountRejected_NegativeOnly(amount) == amount < 0

AmountRejected(amount) == amount <= 0

\* int(amount * 100): rupees to paise, truncated (1000 thousandths to the rupee).
ToPaise(amount) == (amount * 100) \div 1000

GatewayOutcomes == {"created", "raised"}

create_razorpay_order(amount, outcome) ==
    LET rq == [amount |-> amount] IN
    IF AmountRejected(amount)
    THEN /\ last' = Resp("create_razorpay_order", rq, 400, "Invalid amount", NoBody)
         /\ UNCHANGED gateway_calls
    ELSE /\ Len(gateway_calls) < MaxGatewayCalls
         /\ gateway_calls' = Append(gateway_calls,
                [amount |-> ToPaise(amount), currency |-> "INR",
                 receipt |-> "receipt_cocoa", payment_capture |-> 1])
         /\ last' = IF outcome = "created"
                    THEN Resp("create_razorpay_order", rq, 200, "",
                              [kind |-> "payment_order",
                               order_id |-> Len(gateway_calls) + 1,
                               amount |-> ToPaise(amount), currency |-> "INR"])
                    ELSE Resp("create_razorpay_order", rq, 500,
                              "Razorpay order creation failed", NoBody)

CreateRazorpayOrder ==
    /\ \E amount \in Amounts, outcome \in GatewayOutcomes :
          create_razorpay_order(amount, outcome)
    /\ UNCHANGED <<users, menu_items, orders, itemsCreated, now, task, env>>

\* Identifiers that hold the separator are included: "o" + "|" + "p|q" and
\* "o|p" + "|" + "q" are the same message.
OrderIdStrings == {"o", "o|p"}

PaymentIdStrings == {"q", "p|q"}

Signatures ==
    {HmacSha256Hex("k1", SignedMessage(o, p)) :
        o \in OrderIdStrings, p \in PaymentIdStrings}
    \cup {HmacSha256Hex("k2", SignedMessage("o", "q")),
          HmacSha256Hex("", SignedMessage("o", "q")),
          HmacSha256Hex("k1", "oq"), ""}

\* The status and detail verify_payment answers with.
verify_payment(secret, order_id, payment_id, signature) ==
    IF SecretMissing(secret)
    THEN [status |-> 500, detail |-> "Razorpay secret not configured", body |-> NoBody]
    ELSE LET message == SignedMessage(order_id, payment_id)
             expected_signature == HmacSha256Hex(secret[1], message)
         IN IF expected_signature # signature
            THEN [status |-> 400, detail |-> "Payment verification failed",
                  body |-> NoBody]
            ELSE [status |-> 200, detail |-> "",
                  body |-> [kind |-> "status", status |-> "verified"]]

VerifyPayment ==
    /\ \E o \in OrderIdStrings, p \in PaymentIdStrings, s \in Signatures :
          LET r == verify_payment(env, o, p, s) IN
          last' = Resp("verify_payment",
                       [razorpay_order_id |-> o, razorpay_payment_id |-> p,
                        razorpay_signature |-> s],
                       r.status, r.detail, r.body)
    /\ UNCHANGED <<users, menu_items, orders, itemsCreated, now, task, env, gateway_calls>>

(***************************************************************************)
(* src/server.py: the document store                                       *)
(***************************************************************************)
\* An optional value (None, a missing document) is <<>>; a present one is <<v>>.
None == <<>>

Some(v) == <<v>>

\* The first of the positions `hits` of a collection, in its natural order.
FirstOf(hits) == CHOOSE i \in hits : \A j \in hits : i <= j

\* collection.find_one({"id": id}): the first matching document.
FindOneById(coll, id) ==
    LET hits == {i \in 1..Len(coll) : coll[i].id = id} IN
    IF hits = {} THEN None ELSE Some(coll[FirstOf(hits)])

\* collection.update_one({"id": id}, {"$set": fields}): the first match gets
\* the fields, and nothing changes when there is no match.
UpdateOneById(coll, id, fields) ==
    LET hits == {i \in 1..Len(coll) : coll[i].id = id} IN
    IF hits = {} THEN coll
    ELSE [coll EXCEPT ![FirstOf(hits)] =
            [k \in DOMAIN @ |-> IF k \in DOMAIN fields THEN fields[k] ELSE @[k]]]

\* collection.delete_one({"id": id}): the first match is removed.
DeleteOneById(coll, id) ==
    LET hits == {i \in 1..Len(coll) : coll[i].id = id} IN
    IF hits = {} THEN coll
    ELSE SubSeq(coll, 1, FirstOf(hits) - 1)
            \o SubSeq(coll, FirstOf(hits) + 1, Len(coll))

\* cursor.to_list(n): at most the first n documents.
ToList(docs, n) == SubSeq(docs, 1, IF Len(docs) < n THEN Len(docs) ELSE n)

Range(s) == {s[i] : i \in 1..Len(s)}

(***************************************************************************)
(* Passwords and tokens                                                    *)
(***************************************************************************)
Passwords == {"pw1", "pw2"}

\* pwd_context.hash: a one-way digest of the password.
hash_password(password) == <<"bcrypt", password>>

verify_password(plain_password, hashed_password) ==
    hashed_password = <<"bcrypt", plain_password>>

JWT_EXPIRATION_HOURS == 24 * 7

\* jwt.encode: the claims, signed with JWT_SECRET.
create_access_token(data, t) ==
    [sub |-> data.sub, email |-> data.email, role |-> data.role,
     exp |-> t + JWT_EXPIRATION_HOURS, sig |-> "JWT_SECRET"]

\* jwt.decode: the signature is checked first, then the expiry.
jwt_decode(token, t) ==
    IF token.sig # "JWT_SECRET" THEN [error |-> "InvalidTokenError"]
    ELSE IF token.exp <= t THEN [error |-> "ExpiredSignatureError"]
    ELSE [error |-> "", payload |-> token]

\* User(**user): the stored document without its password.
User(doc) == [id |-> doc.id, email |-> doc.email, role |-> doc.role,
              created_at |-> doc.created_at]

Unauthorized(detail) == [ok |-> FALSE, status |-> 401, detail |-> detail]

get_current_user(token, t, db_users) ==
    LET decoded == jwt_decode(token, t) IN
    IF decoded.error = "ExpiredSignatureError" THEN Unauthorized("Token expired")
    ELSE IF decoded.error = "InvalidTokenError" THEN Unauthorized("Invalid token")
    ELSE IF "sub" \notin DOMAIN decoded.payload THEN Unauthorized("Invalid token")
    ELSE LET user_id == decoded.payload.sub
             user == FindOneById(db_users, user_id)
         IN IF user = None THEN Unauthorized("User not found")
            ELSE [ok |-> TRUE, status |-> 200, detail |-> "", user |-> User(user[1])]

IsAdmin_Anyone(current_user) == TRUE

IsAdmin(current_user) == current_user.role = "admin"

\* Depends(get_current_admin): get_current_user, then the role.
get_current_admin(token, t, db_users) ==
    LET auth == get_current_user(token, t, db_users) IN
    IF ~auth.ok THEN auth
    ELSE IF ~IsAdmin(auth.user)
    THEN [ok |-> FALSE, status |-> 403, detail |-> "Admin access required",
          user |-> auth.user]
    ELSE auth

\* The clock readings seen so far: the clock moves a validity window at a time.
Times == {i * JWT_EXPIRATION_HOURS : i \in 0..MaxTicks}

\* The bearer credentials a client can present: a token the service issued to
\* a user at signup or at a later login, or such a token tampered with, whose
\* signature no longer matches.
IssuedTokens ==
    UNION {{create_access_token([sub |-> u.id, email |-> u.email, role |-> u.role], t) :
                t \in {x \in Times : u.created_at <= x /\ x <= now}} :
           u \in Range(users)}

Tamper(token) == [token EXCEPT !.sig = "tampered"]

Credentials == IssuedTokens \cup {Tamper(tok) : tok \in IssuedTokens}

(***************************************************************************)
(* Request slots                                                           *)
(***************************************************************************)
Procs == {"t1", "t2"}

Idle == [pc |-> "idle"]

Reply(r) == last' = r

\* The response of a request the guard turned away, before its handler ran.
Denied(op, auth) ==
    RespAs(op, IF "user" \in DOMAIN auth THEN Some(auth.user) ELSE None,
           [none |-> TRUE], auth.status, auth.detail, NoBody)

Finish(p, r) == /\ task' = [task EXCEPT ![p] = Idle]
                /\ last' = r

(***************************************************************************)
(* POST /auth/signup, POST /auth/login, GET /auth/me                       *)
(***************************************************************************)
\* An address is <<local part, domain>>.  EmailStr validation lower-cases the
\* domain and keeps the local part as written.
Lower(domain) == IF domain = "X.com" THEN "x.com" ELSE domain

NormalizeEmail(email) == <<email[1], Lower(email[2])>>

RawEmails == {<<"a", "x.com">>, <<"a", "X.com">>, <<"b", "x.com">>, <<"c", "x.com">>}

AuthBody(token, user) == [kind |-> "auth", token |-> token, user |-> user]

FindUserByEmail_Blind(db_users, email) == None

\* db.users.find_one({"email": email})
FindUserByEmail(db_users, email) ==
    LET hits == {i \in 1..Len(db_users) : db_users[i].email = email} IN
    IF hits = {} THEN None ELSE Some(db_users[FirstOf(hits)])

\* How many documents the model lets db.users grow to.
UsersBound == 2 + MaxSignups

\* signup up to its insert_one: the pre-check, then the User is built.
Signup(p) ==
    /\ task[p] = Idle
    /\ \E raw \in RawEmails, password \in Passwords :
          LET email == NormalizeEmail(raw)
              rq == [email |-> email, password |-> password]
              existing_user == FindUserByEmail(users, email)
          IN IF existing_user # None
             THEN /\ Reply(Resp("signup", rq, 400, "Email already registered", NoBody))
                  /\ UNCHANGED task
             ELSE /\ Len(users) + Cardinality({q \in Procs : task[q].pc = "signup_insert"})
                        < UsersBound
                  /\ task' = [task EXCEPT ![p] =
                                [pc |-> "signup_insert", rq |-> rq, created_at |-> now]]
                  /\ UNCHANGED last
    /\ UNCHANGED <<users, menu_items, orders, itemsCreated, now, env, gateway_calls>>

InsertOne_UniqueEmail(coll, doc) ==
    IF \E d \in Range(coll) : d.email = doc.email THEN coll ELSE Append(coll, doc)

\* collection.insert_one(doc): no index of the collection refuses a document.
InsertOne(coll, doc) == Append(coll, doc)

\* signup from its insert_one on.
SignupInsert(p) ==
    /\ task[p].pc = "signup_insert"
    /\ LET doc == [id |-> Len(users) + 1, email |-> task[p].rq.email,
                   role |-> "customer",
                   password |-> hash_password(task[p].rq.password),
                   created_at |-> task[p].created_at]
           token == create_access_token(
                        [sub |-> doc.id, email |-> doc.email, role |-> doc.role], now)
       IN /\ users' = InsertOne(users, doc)
          /\ Finish(p, Resp("signup", task[p].rq, 200, "", AuthBody(token, User(doc))))
    /\ UNCHANGED <<menu_items, orders, itemsCreated, now, env, gateway_calls>>

\* login's two raise sites.
UserNotFound_Told == [status |-> 404, detail |-> "User not found", body |-> NoBody]

UserNotFound == [status |-> 401, detail |-> "Invalid credentials", body |-> NoBody]

WrongPassword == [status |-> 401, detail |-> "Invalid credentials", body |-> NoBody]

login(db_users, email, password, t) ==
    LET user == FindUserByEmail(db_users, email) IN
    IF user = None THEN UserNotFound
    ELSE IF ~verify_password(password, user[1].password) THEN WrongPassword
    ELSE LET user_obj == User(user[1])
             token == create_access_token(
                          [sub |-> user_obj.id, email |-> user_obj.email,
                           role |-> user_obj.role], t)
         IN [status |-> 200, detail |-> "", body |-> AuthBody(token, user_obj)]

LoginEmails == {NormalizeEmail(raw) : raw \in RawEmails} \cup {<<"root", "x.com">>}

Login ==
    /\ \E email \in LoginEmails, password \in Passwords :
          LET r == login(users, email, password, now)
          IN Reply(Resp("login", [email |-> email, password |-> password],
                        r.status, r.detail, r.body))
    /\ UNCHANGED <<users, menu_items, orders, itemsCreated, now, task, env, gateway_calls>>

GetMe ==
    /\ \E token \in Credentials :
          LET auth == get_current_user(token, now, users)
              rq == [none |-> TRUE]
          IN IF ~auth.ok THEN Reply(Denied("get_me", auth))
             ELSE Reply(RespAs("get_me", Some(auth.user), rq, 200, "",
                               [kind |-> "user", user |-> auth.user]))
    /\ UNCHANGED <<users, menu_items, orders, itemsCreated, now, task, env, gateway_calls>>

(***************************************************************************)
(* Menu items                                                              *)
(***************************************************************************)
Categories == {"cake", "drink"}

ItemIds == 1..MaxItems

\* to_list(1000)
ListLimit == 1000

MenuQuery_NoAvailability(item, category) ==
    category = None \/ category[1] = "" \/ item.category = category[1]

\* query = {"available": True}, and the category when one is given.
MenuQuery(item, category) ==
    /\ item.available = TRUE
    /\ category = None \/ category[1] = "" \/ item.category = category[1]

get_menu_items(db_items, category) ==
    LET Matches(item) == MenuQuery(item, category)
    IN ToList(SelectSeq(db_items, Matches), ListLimit)

CategoryQueries == {None, Some("")} \cup {Some(c) : c \in Categories}

GetMenuItems ==
    /\ \E category \in CategoryQueries :
          Reply(Resp("get_menu_items", [category |-> category], 200, "",
                     [kind |-> "items", items |-> get_menu_items(menu_items, category)]))
    /\ UNCHANGED <<users, menu_items, orders, itemsCreated, now, task, env, gateway_calls>>

CreateMenuItem ==
    /\ \E token \in Credentials, category \in Categories, available \in BOOLEAN :
          LET auth == get_current_admin(token, now, users)
              rq == [category |-> category, available |-> available]
              item == [id |-> itemsCreated + 1, category |-> category,
                       available |-> available]
          IN IF ~auth.ok
             THEN /\ Reply(Denied("create_menu_item", auth))
                  /\ UNCHANGED <<menu_items, itemsCreated>>
             ELSE /\ itemsCreated < MaxItems
                  /\ menu_items' = InsertOne(menu_items, item)
                  /\ itemsCreated' = itemsCreated + 1
                  /\ Reply(RespAs("create_menu_item", Some(auth.user), rq, 200, "",
                                  [kind |-> "item", item |-> item]))
    /\ UNCHANGED <<users, orders, now, task, env, gateway_calls>>

\* MenuItemUpdate: a field left out is None, and is not written.
UpdateDatas ==
    {[category |-> None, available |-> None],
     [category |-> Some("drink"), available |-> Some(FALSE)]}

\* {k: v for k, v in item_data.model_dump().items() if v is not None}
UpdateData(item_data) ==
    [k \in {f \in DOMAIN item_data : item_data[f] # None} |-> item_data[k][1]]

\* `if update_data:` an empty dict is falsy.
NonEmpty(update_data) == DOMAIN update_data # {}

\* update_menu_item up to its update_one: the guard and the first find_one.
UpdateMenuItem(p) ==
    /\ task[p] = Idle
    /\ \E token \in Credentials, item_id \in ItemIds, item_data \in UpdateDatas :
          LET auth == get_current_admin(token, now, users)
              rq == [item_id |-> item_id, item_data |-> item_data]
              existing_item == FindOneById(menu_items, item_id)
          IN IF ~auth.ok
             THEN /\ Reply(Denied("update_menu_item", auth))
                  /\ UNCHANGED task
             ELSE IF existing_item = None
             THEN /\ Reply(RespAs("update_menu_item", Some(auth.user), rq, 404,
                                  "Menu item not found", NoBody))
                  /\ UNCHANGED task
             ELSE /\ task' = [task EXCEPT ![p] =
                                [pc |-> IF NonEmpty(UpdateData(item_data))
                                        THEN "update_menu_item_update_one"
                                        ELSE "update_menu_item_find_one",
                                 rq |-> rq, user |-> auth.user]]
                  /\ UNCHANGED last
    /\ UNCHANGED <<users, menu_items, orders, itemsCreated, now, env, gateway_calls>>

\* update_menu_item: its update_one.
UpdateMenuItemUpdateOne(p) ==
    /\ task[p].pc = "update_menu_item_update_one"
    /\ menu_items' = UpdateOneById(menu_items, task[p].rq.item_id,
                                   UpdateData(task[p].rq.item_data))
    /\ task' = [task EXCEPT ![p].pc = "update_menu_item_find_one"]
    /\ UNCHANGED <<users, orders, itemsCreated, now, env, gateway_calls, last>>

\* update_menu_item: its second find_one.  Subscripting None raises TypeError,
\* which the framework answers with 500.
UpdateMenuItemFindOne(p) ==
    /\ task[p].pc = "update_menu_item_find_one"
    /\ LET updated_item == FindOneById(menu_items, task[p].rq.item_id)
       IN IF updated_item = None
          THEN Finish(p, RespAs("update_menu_item", Some(task[p].user), task[p].rq,
                                500, "Internal Server Error", NoBody))
          ELSE Finish(p, RespAs("update_menu_item", Some(task[p].user), task[p].rq,
                                200, "", [kind |-> "item", item |-> updated_item[1]]))
    /\ UNCHANGED <<users, menu_items, orders, itemsCreated, now, env, gateway_calls>>

DeleteMenuItem ==
    /\ \E token \in Credentials, item_id \in ItemIds :
          LET auth == get_current_admin(token, now, users)
              rq == [item_id |-> item_id]
              deleted_count ==
                  IF \E i \in Range(menu_items) : i.id = item_id THEN 1 ELSE 0
          IN IF ~auth.ok
             THEN /\ Reply(Denied("delete_menu_item", auth))
                  /\ UNCHANGED menu_items
             ELSE /\ menu_items' = DeleteOneById(menu_items, item_id)
                  /\ IF deleted_count = 0
                     THEN Reply(RespAs("delete_menu_item", Some(auth.user), rq, 404,
                                       "Menu item not found", NoBody))
                     ELSE Reply(RespAs("delete_menu_item", Some(auth.user), rq, 200,
                                       "Menu item deleted successfully", NoBody))
    /\ UNCHANGED <<users, orders, itemsCreated, now, task, env, gateway_calls>>

(***************************************************************************)
(* Orders                                                                  *)
(***************************************************************************)
\* The ids a request can name: those of the orders, and 0, which no order has.
OrderIds == 0..MaxOrders

Statuses == {"preparing", "delivered"}

CreateOrder ==
    /\ \E token \in Credentials :
          LET auth == get_current_user(token, now, users)
              rq == [none |-> TRUE]
              order == [id |-> Len(orders) + 1, user_id |-> auth.user.id,
                        status |-> "pending"]
          IN IF ~auth.ok
             THEN /\ Reply(Denied("create_order", auth))
                  /\ UNCHANGED orders
             ELSE /\ Len(orders) < MaxOrders
                  /\ orders' = InsertOne(orders, order)
                  /\ Reply(RespAs("create_order", Some(auth.user), rq, 200, "",
                                  [kind |-> "order", order |-> order]))
    /\ UNCHANGED <<users, menu_items, itemsCreated, now, task, env, gateway_calls>>

\* The listings are sorted by created_at; the model keeps the documents found.
GetMyOrders ==
    /\ \E token \in Credentials :
          LET auth == get_current_user(token, now, users)
              rq == [none |-> TRUE]
          IN IF ~auth.ok THEN Reply(Denied("get_my_orders", auth))
             ELSE Reply(RespAs("get_my_orders", Some(auth.user), rq, 200, "",
                               [kind |-> "orders",
                                orders |-> {o \in Range(orders) :
                                               o.user_id = auth.user.id}]))
    /\ UNCHANGED <<users, menu_items, orders, itemsCreated, now, task, env, gateway_calls>>

AccessDenied_OwnerOnly(order, current_user) == order.user_id # current_user.id

\* get_order's 403 condition.
AccessDenied(order, current_user) ==
    order.user_id # current_user.id /\ current_user.role # "admin"

get_order(db_orders, order_id, current_user) ==
    LET order == FindOneById(db_orders, order_id) IN
    IF order = None
    THEN [status |-> 404, detail |-> "Order not found", body |-> NoBody]
    ELSE IF AccessDenied(order[1], current_user)
    THEN [status |-> 403, detail |-> "Access denied", body |-> NoBody]
    ELSE [status |-> 200, detail |-> "", body |-> [kind |-> "order", order |-> order[1]]]

GetOrder ==
    /\ \E token \in Credentials, order_id \in OrderIds :
          LET auth == get_current_user(token, now, users)
              rq == [order_id |-> order_id]
          IN IF ~auth.ok THEN Reply(Denied("get_order", auth))
             ELSE LET r == get_order(orders, order_id, auth.user)
                  IN Reply(RespAs("get_order", Some(auth.user), rq,
                                  r.status, r.detail, r.body))
    /\ UNCHANGED <<users, menu_items, orders, itemsCreated, now, task, env, gateway_calls>>

StatusFilters == {None, Some("pending")}

GetAllOrders ==
    /\ \E token \in Credentials, status_filter \in StatusFilters :
          LET auth == get_current_admin(token, now, users)
              rq == [status_filter |-> status_filter]
          IN IF ~auth.ok THEN Reply(Denied("get_all_orders", auth))
             ELSE Reply(RespAs("get_all_orders", Some(auth.user), rq, 200, "",
                               [kind |-> "orders",
                                orders |-> {o \in Range(orders) :
                                               \/ status_filter = None
                                               \/ o.status = status_filter[1]}]))
    /\ UNCHANGED <<users, menu_items, orders, itemsCreated, now, task, env, gateway_calls>>

\* update_order_status up to its update_one: the guard and the find_one.
UpdateOrderStatus(p) ==
    /\ task[p] = Idle
    /\ \E token \in Credentials, order_id \in OrderIds, status \in Statuses :
          LET auth == get_current_admin(token, now, users)
              rq == [order_id |-> order_id, status |-> status]
              order == FindOneById(orders, order_id)
          IN IF ~auth.ok
             THEN /\ Reply(Denied("update_order_status", auth))
                  /\ UNCHANGED task
             ELSE IF order = None
             THEN /\ Reply(RespAs("update_order_status", Some(auth.user), rq, 404,
                                  "Order not found", NoBody))
                  /\ UNCHANGED task
             ELSE /\ task' = [task EXCEPT ![p] =
                                [pc |-> "update_order_status_update_one",
                                 rq |-> rq, user |-> auth.user]]
                  /\ UNCHANGED last
    /\ UNCHANGED <<users, menu_items, orders, itemsCreated, now, env, gateway_calls>>

\* update_order_status: its update_one.
UpdateOrderStatusUpdateOne(p) ==
    /\ task[p].pc = "update_order_status_update_one"
    /\ orders' = UpdateOneById(orders, task[p].rq.order_id,
                               [status |-> task[p].rq.status])
    /\ Finish(p, RespAs("update_order_status", Some(task[p].user), task[p].rq, 200,
                        "Order status updated successfully", NoBody))
    /\ UNCHANGED <<users, menu_items, itemsCreated, now, env, gateway_calls>>

(***************************************************************************)
(* The clock, the initial state and the specifications                     *)
(***************************************************************************)
Tick ==
    /\ now < MaxTicks * JWT_EXPIRATION_HOURS
    /\ now' = now + JWT_EXPIRATION_HOURS
    /\ UNCHANGED <<users, menu_items, orders, itemsCreated, task, env, gateway_calls, last>>

\* The code has no write path to the admin role: the administrator's document
\* is in db.users before the service starts, and so is an earlier customer's.
Administrator ==
    [id |-> 1, email |-> <<"root", "x.com">>, role |-> "admin",
     password |-> hash_password("pw1"), created_at |-> 0]

Customer ==
    [id |-> 2, email |-> <<"b", "x.com">>, role |-> "customer",
     password |-> hash_password("pw2"), created_at |-> 0]

\* The state at process start: RAZORPAY_KEY_SECRET as the environment has it,
\* and the orders db.orders already holds.
Boot(secret, stored_orders) ==
    /\ users = <<Administrator, Customer>>
    /\ menu_items = <<>>
    /\ orders = stored_orders
    /\ itemsCreated = 0
    /\ now = 0
    /\ task = [p \in Procs |-> Idle]
    /\ env = secret
    /\ gateway_calls = <<>>
    /\ last = NoResp

Init == \E secret \in Secrets : Boot(secret, <<>>)

\* Only the payments router reads the environment: the specifications of the
\* other routes start with the secret configured.
InitConfigured == Boot(<<"k1">>, <<>>)

\* The same, with an order the customer placed earlier.
InitWithOrder == Boot(<<"k1">>, <<[id |-> 1, user_id |-> 2, status |-> "pending"]>>)

SignupNext ==
    \/ \E p \in Procs : Signup(p)
    \/ \E p \in Procs : SignupInsert(p)

AuthNext ==
    \/ SignupNext
    \/ Login
    \/ GetMe
    \/ Tick

MenuAdminNext ==
    \/ CreateMenuItem
    \/ \E p \in Procs : UpdateMenuItem(p)
    \/ \E p \in Procs : UpdateMenuItemUpdateOne(p)
    \/ \E p \in Procs : UpdateMenuItemFindOne(p)
    \/ DeleteMenuItem

MenuNext == GetMenuItems \/ MenuAdminNext

OrdersNext ==
    \/ CreateOrder
    \/ GetMyOrders
    \/ GetOrder

AdminOrdersNext ==
    \/ GetAllOrders
    \/ \E p \in Procs : UpdateOrderStatus(p)
    \/ \E p \in Procs : UpdateOrderStatusUpdateOne(p)

PaymentsNext == CreateRazorpayOrder \/ VerifyPayment

Next == AuthNext \/ MenuNext \/ OrdersNext \/ AdminOrdersNext \/ PaymentsNext

\* The whole service.
Spec == Init /\ [][Next]_vars

\* The payments router, which shares no state with the rest.
SpecPay == Init /\ [][PaymentsNext]_vars

\* Signup, login and the token guard.
SpecAuth == InitConfigured /\ [][AuthNext]_vars

\* The same with signups one at a time: no signup starts while another is
\* suspended before its insert_one.
SignupOneAtATime(p) ==
    /\ \A q \in Procs : task[q].pc # "signup_insert"
    /\ Signup(p)

SeqNext ==
    \/ \E p \in Procs : SignupOneAtATime(p)
    \/ \E p \in Procs : SignupInsert(p)
    \/ Login
    \/ GetMe

SpecSeq == InitConfigured /\ [][SeqNext]_vars

\* Signups and the order routes of an authenticated user.
SpecOrders == InitConfigured /\ [][SignupNext \/ OrdersNext]_vars

\* The menu routes.
SpecMenu == InitConfigured /\ [][MenuNext]_vars

\* The five admin-only routes, from a store that holds an order.
SpecAdmin == InitWithOrder /\ [][MenuAdminNext \/ AdminOrdersNext]_vars

(***************************************************************************)
(* The claims                                                              *)
(***************************************************************************)
Replied(op) == last' # last /\ last'.op = op

Verified == [kind |-> "status", status |-> "verified"]

\* C1: verify_payment answers {status: "verified"} exactly when the secret is
\* configured and the signature is the HMAC-SHA256, under that secret, of
\* order id + "|" + payment id; it answers with an error otherwise, also for the
\* right signature with the signature, the order id or the payment id changed;
\* without a secret no input at all is verified.
C1_VerifiedIffSignatureMatches ==
    LET configured == env # <<>> /\ env[1] # ""
        verified(o, p, sig) == LET r == verify_payment(env, o, p, sig)
                               IN r.status = 200 /\ r.body = Verified
        rejected(o, p, sig) == LET r == verify_payment(env, o, p, sig)
                               IN r.status \in {400, 500} /\ r.body = NoBody
    IN /\ last.op = "verify_payment" =>
            /\ (last.status = 200 /\ last.body = Verified)
                 <=> /\ configured
                     /\ last.req.razorpay_signature =
                          HmacSha256Hex(env[1], last.req.razorpay_order_id \o "|"
                                                  \o last.req.razorpay_payment_id)
            /\ last.status # 200 => last.status \in {400, 500} /\ last.body = NoBody
       /\ \A o \in OrderIdStrings, p \in PaymentIdStrings :
             IF configured
             THEN LET good == HmacSha256Hex(env[1], o \o "|" \o p) IN
                  /\ verified(o, p, good)
                  /\ \A sig \in Signatures \ {good} : rejected(o, p, sig)
                  /\ \A o2 \in OrderIdStrings \ {o} : rejected(o2, p, good)
                  /\ \A p2 \in PaymentIdStrings \ {p} : rejected(o, p2, good)
             ELSE \A sig \in Signatures : rejected(o, p, sig)

C1_Witness ==
    /\ last.op = "verify_payment"
    /\ last.status = 200
    /\ last.req.razorpay_order_id = "o|p"

\* C2: a create_razorpay_order request whose amount is zero or negative is
\* answered 400 and makes no gateway call: every gateway call is made for a
\* request with a positive amount.
C2_NoGatewayCallForNonPositiveAmount ==
    [][/\ (Replied("create_razorpay_order") /\ last'.req.amount <= 0)
            => /\ last'.status = 400
               /\ gateway_calls' = gateway_calls
       /\ gateway_calls' # gateway_calls
            => /\ last'.op = "create_razorpay_order"
               /\ last'.req.amount > 0]_vars

C2_Witness ==
    /\ last.op = "create_razorpay_order"
    /\ last.req.amount = 0
    /\ last.status = 400
    /\ gateway_calls # <<>>

\* C3: get_order answers an authenticated caller with the order exactly when
\* the order is in the store and the caller owns it or is an admin, with 403
\* and no order when it is in the store and the caller is neither, and with
\* 404 when it is not in the store.
C3_GetOrderOwnerOrAdmin ==
    (last.op = "get_order" /\ last.caller # None) =>
        LET caller == last.caller[1]
            found == {o \in Range(orders) : o.id = last.req.order_id}
        IN /\ found = {} => last.status = 404 /\ last.body = NoBody
           /\ \A o \in found :
                 IF o.user_id = caller.id \/ caller.role = "admin"
                 THEN last.status = 200 /\ last.body = [kind |-> "order", order |-> o]
                 ELSE last.status = 403 /\ last.body = NoBody

C3_Witness ==
    /\ last.op = "get_order"
    /\ last.status = 403
    /\ last.caller # None
    /\ last.caller[1].id = 3
    /\ \E o \in Range(orders) : o.id = last.req.order_id /\ o.user_id = 2

\* C4: an admin-only route called by an authenticated identity that is not an
\* admin answers 403 and leaves menu_items and orders as they were; a step that
\* changes menu_items or the status of an order is taken for an admin.
AdminOps == {"create_menu_item", "update_menu_item", "delete_menu_item",
             "get_all_orders", "update_order_status"}

StatusChanged ==
    \E i \in 1..Len(orders) : i <= Len(orders') /\ orders'[i].status # orders[i].status

ForAdmin ==
    \/ last' # last /\ last'.caller # None /\ last'.caller[1].role = "admin"
    \/ \E p \in Procs : /\ task[p] # Idle
                        /\ task'[p] # task[p]
                        /\ task[p].user.role = "admin"

C4_AdminOnly ==
    /\ [](last.op \in AdminOps /\ last.caller # None /\ last.caller[1].role # "admin"
            => last.status = 403 /\ last.body = NoBody)
    /\ [][/\ (last' # last /\ last'.op \in AdminOps /\ last'.status = 403)
               => UNCHANGED <<menu_items, orders>>
          /\ (menu_items' # menu_items \/ StatusChanged) => ForAdmin]_vars

C4_Witness ==
    /\ last.op = "update_order_status"
    /\ last.caller # None
    /\ last.caller[1].role = "customer"
    /\ last.status = 403
    /\ menu_items # <<>>
    /\ \E o \in Range(orders) : o.status = "delivered"

\* C5: with signups one at a time, a signup whose email is registered answers
\* 400 and leaves users as it was, and no two user documents share an email.
NoSharedEmail ==
    \A i, j \in 1..Len(users) : users[i].email = users[j].email => i = j

C5_SequentialSignupsKeepEmailsUnique ==
    /\ []NoSharedEmail
    /\ [][(Replied("signup") /\ \E u \in Range(users) : u.email = last'.req.email)
              => last'.status = 400 /\ users' = users]_vars

C5_Witness ==
    /\ last.op = "signup"
    /\ last.status = 400
    /\ last.req.email = <<"a", "x.com">>
    /\ Len(users) = 4

\* C6: signup's insert_one is a step of its own that adds the document whatever
\* db.users holds by then, so a signup that passed its pre-check succeeds even
\* when the email has been registered since.
C6_InsertIsUnguarded ==
    [][\A p \in Procs :
          (task[p].pc = "signup_insert" /\ task'[p] = Idle)
             => /\ Len(users') = Len(users) + 1
                /\ users'[Len(users')].email = task[p].rq.email
                /\ last'.op = "signup" /\ last'.status = 200]_vars

C6_Witness ==
    /\ \E i, j \in 1..Len(users) : i # j /\ users[i].email = users[j].email
    /\ last.op = "signup"
    /\ last.status = 200

\* C7: a failed login answers the same, 401 with the same detail, whether or
\* not the email is registered.
C7_LoginFailuresAlike ==
    LET failures == {r \in {login(users, e, pw, now) : e \in LoginEmails, pw \in Passwords} :
                        r.status # 200}
    IN /\ \A r1, r2 \in failures : r1 = r2
       /\ \A r \in failures : r.status = 401
       /\ (last.op = "login" /\ last.status # 200) =>
             \A r \in failures : last.status = r.status /\ last.detail = r.detail

C7_Witness ==
    /\ last.op = "login"
    /\ last.status = 401
    /\ \E u \in Range(users) : u.email = last.req.email
    /\ \E e \in LoginEmails : /\ \A u \in Range(users) : u.email # e
                              /\ login(users, e, "pw1", now).status = 401

\* C8: a protected request with an expired token and one with a tampered token
\* are answered alike, with the same status and the same detail.
Expired(token) == jwt_decode(token, now).error = "ExpiredSignatureError"

Malformed(token) == jwt_decode(token, now).error = "InvalidTokenError"

C8_TokenFailuresAlike ==
    \A t1, t2 \in Credentials :
        (Expired(t1) /\ Malformed(t2)) =>
            LET r1 == get_current_user(t1, now, users)
                r2 == get_current_user(t2, now, users)
            IN r1.status = r2.status /\ r1.detail = r2.detail

\* Whether the store holds the item, and whether some listing returns it.
Stored(id) == \E i \in Range(menu_items) : i.id = id

Retrievable(id) ==
    \E category \in CategoryQueries :
        \E i \in Range(get_menu_items(menu_items, category)) : i.id = id

CreatedByAdmin ==
    last.op = "create_menu_item" /\ last.caller # None /\ last.caller[1].role = "admin"

\* C9 as claimed: an admin's create_menu_item succeeds, and the created item,
\* unless deleted, is returned by get_menu_items whatever its availability flag.
C9_CreatedItemRetrievable ==
    CreatedByAdmin =>
        /\ last.status = 200
        /\ Stored(last.body.item.id) => Retrievable(last.body.item.id)

\* C9 as amended: an admin's create_menu_item succeeds, and a stored item is
\* returned by get_menu_items (unfiltered, and filtered by its category) when
\* its stored availability flag is true and the store holds at most 1000
\* available items, and by no get_menu_items query when the flag is false.
C9_AvailableItemRetrievable ==
    /\ CreatedByAdmin =>
          /\ last.status = 200
          /\ last.body.item.category = last.req.category
          /\ last.body.item.available = last.req.available
    /\ \A item \in Range(menu_items) :
          IF item.available
          THEN Cardinality({i \in Range(menu_items) : i.available}) <= ListLimit
                  => /\ item \in Range(get_menu_items(menu_items, None))
                     /\ item \in Range(get_menu_items(menu_items, Some(item.category)))
          ELSE ~Retrievable(item.id)

C9_Witness ==
    /\ CreatedByAdmin
    /\ last.status = 200
    /\ last.req.available
    /\ Stored(last.body.item.id)
    /\ Retrievable(last.body.item.id)

\* C10: update_menu_item ends with 404 or with the updated item, whatever
\* delete_menu_item does to the same item meanwhile.
C10_UpdateEndsWith404OrItem ==
    (last.op = "update_menu_item" /\ last.caller # None /\ last.caller[1].role = "admin")
        => \/ last.status = 404
           \/ /\ last.status = 200
              /\ last.body.kind = "item"
              /\ last.body.item.id = last.req.item_id

====
